---- MODULE Spec2Model ----
(***************************************************************************)
(* Query-parameter translation of the manuscript catalogue API.            *)
(*                                                                         *)
(*   src/frontend/main.py  translate_params / generate_datestring          *)
(*   src/main.py           get_items / get_request (collection sort)       *)
(*                                                                         *)
(* A Python string is modelled as a sequence of one-character strings, so  *)
(* that formatting, splitting, quoting and regular-expression matching are *)
(* computed character by character.  A Python value that may be None, a    *)
(* str or a list of str is a record [kind, s, l].                          *)
(***************************************************************************)
EXTENDS Integers, Sequences, FiniteSets, TLC

\* ------------------------------------------------------------------------
\* Characters, in code-point order (the order str comparison uses)
\* ------------------------------------------------------------------------
Alphabet == <<" ","!","\"","'","(",")","*","-",".","0","1","2","3","4","5","6","7","8","9",":","A","B","C","D","E","F","G","H","I","J","K","L","M","N","O","P","Q","R","S","T","U","V","W","X","Y","Z","[","]","_","a","b","c","d","e","f","g","h","i","j","k","l","m","n","o","p","q","r","s","t","u","v","w","x","y","z","{","}">>

Ord(c) == CHOOSE i \in DOMAIN Alphabet : Alphabet[i] = c

Digits == <<"0","1","2","3","4","5","6","7","8","9">>

IsDigit(c) == \E i \in DOMAIN Digits : Digits[i] = c

DigitVal(c) == (CHOOSE i \in DOMAIN Digits : Digits[i] = c) - 1

IsSpace(c) == c = " "

\* the absent Optional[str]: no string has a multi-character element
NoneStr == <<"None">>

\* ------------------------------------------------------------------------
\* String literals of the source
\* ------------------------------------------------------------------------
s_year == <<"y","e","a","r">>
s_month == <<"m","o","n","t","h">>
s_day == <<"d","a","y">>
s_year_max == <<"y","e","a","r","-","m","a","x">>
s_month_max == <<"m","o","n","t","h","-","m","a","x">>
s_day_max == <<"d","a","y","-","m","a","x">>
s_search_date_type == <<"s","e","a","r","c","h","-","d","a","t","e","-","t","y","p","e">>
s_dateRange == <<"d","a","t","e","R","a","n","g","e">>
s_keyword == <<"k","e","y","w","o","r","d">>
s_text == <<"t","e","x","t">>
s_sectionType == <<"s","e","c","t","i","o","n","T","y","p","e">>
s_page == <<"p","a","g","e">>
s_sort == <<"s","o","r","t">>
s_rows == <<"r","o","w","s">>
s_title == <<"t","i","t","l","e">>
s_date == <<"d","a","t","e">>
s_score == <<"s","c","o","r","e">>
s_asc == <<"a","s","c">>
s_desc == <<"d","e","s","c">>
s_between == <<"b","e","t","w","e","e","n">>
s_after == <<"a","f","t","e","r">>
s_before == <<"b","e","f","o","r","e">>
s_Within == <<"W","i","t","h","i","n">>
s_Intersects == <<"I","n","t","e","r","s","e","c","t","s">>
s_max_default == <<"2","0","0","9","-","0","2","-","1","2">>
s_min_default == <<"1","6","0","9","-","0","2","-","1","2">>
s_before_bound == <<"-","3","0","0","0","-","0","1","-","0","1">>
s_TO == <<" ","T","O"," ">>
s_field_prefix == <<"{","!","f","i","e","l","d"," ","f","=","d","a","t","e","R","a","n","g","e"," ","o","p","=">>
s_facet_dash == <<"f","a","c","e","t","-">>
s_s_dash == <<"s","-">>
s_dash_date == <<"-","d","a","t","e">>
s_facet_year == <<"f","a","c","e","t","-","y","e","a","r">>
s_facet_year_month == <<"f","a","c","e","t","-","y","e","a","r","-","m","o","n","t","h">>
s_facet_year_month_day == <<"f","a","c","e","t","-","y","e","a","r","-","m","o","n","t","h","-","d","a","y">>
s_hint_prefix == <<"f",".">>
s_hint_suffix == <<".","f","a","c","e","t",".","c","o","n","t","a","i","n","s">>
s_star == <<"*">>
s_list_star == <<"[","'","*","'","]">>
s_list_empty == <<"[","'","'","]">>
s_sep == <<":",":">>
s_text_field == <<"_","t","e","x","t","_">>
s_content_textual == <<"c","o","n","t","e","n","t","_","t","e","x","t","u","a","l","-","c","o","n","t","e","n","t">>
s_content_footnotes == <<"c","o","n","t","e","n","t","_","f","o","o","t","n","o","t","e","s">>
s_content_summary == <<"c","o","n","t","e","n","t","_","s","u","m","m","a","r","y">>

\* ------------------------------------------------------------------------
\* str operations
\* ------------------------------------------------------------------------
RECURSIVE Join(_, _)
\* sep.join(parts)
Join(sep, parts) ==
    IF parts = <<>> THEN <<>>
    ELSE IF Len(parts) = 1 THEN parts[1]
    ELSE parts[1] \o sep \o Join(sep, Tail(parts))

StartsWith(s, p) == Len(s) >= Len(p) /\ SubSeq(s, 1, Len(p)) = p

EndsWith(s, p) == Len(s) >= Len(p) /\ SubSeq(s, Len(s) - Len(p) + 1, Len(s)) = p

\* sub in s
IsSubstring(sub, s) ==
    \E i \in 1..(Len(s) + 1) :
        i + Len(sub) - 1 <= Len(s) /\ SubSeq(s, i, i + Len(sub) - 1) = sub

AllDigits(s) == \A i \in DOMAIN s : IsDigit(s[i])

RECURSIVE Zeros(_)
Zeros(n) == IF n <= 0 THEN <<>> ELSE <<"0">> \o Zeros(n - 1)

\* str.zfill(width): pads on the left, after a leading sign
zfill(s, width) ==
    IF Len(s) >= width THEN s
    ELSE IF s # <<>> /\ s[1] \in {"+", "-"}
         THEN <<s[1]>> \o Zeros(width - Len(s)) \o Tail(s)
         ELSE Zeros(width - Len(s)) \o s

\* re.sub(r'^"(.+?)"$', r'\1', s)
StripQuotes(s) ==
    IF Len(s) >= 3 /\ s[1] = "\"" /\ s[Len(s)] = "\""
    THEN SubSeq(s, 2, Len(s) - 1)
    ELSE s

RECURSIVE Split(_, _)
\* s.split(sep)
Split(s, sep) ==
    IF \E i \in 1..Len(s) : StartsWith(SubSeq(s, i, Len(s)), sep)
    THEN LET i == CHOOSE j \in 1..Len(s) :
                      /\ StartsWith(SubSeq(s, j, Len(s)), sep)
                      /\ \A k \in 1..(j - 1) : ~StartsWith(SubSeq(s, k, Len(s)), sep)
         IN  <<SubSeq(s, 1, i - 1)>> \o Split(SubSeq(s, i + Len(sep), Len(s)), sep)
    ELSE <<s>>

RECURSIVE StrLess(_, _)
\* a < b on str
StrLess(a, b) ==
    IF b = <<>> THEN FALSE
    ELSE IF a = <<>> THEN TRUE
    ELSE IF a[1] # b[1] THEN Ord(a[1]) < Ord(b[1])
    ELSE StrLess(Tail(a), Tail(b))

RECURSIVE InsertSorted(_, _)
InsertSorted(sorted, x) ==
    IF sorted = <<>> THEN <<x>>
    ELSE IF StrLess(x, sorted[1]) THEN <<x>> \o sorted
    ELSE <<sorted[1]>> \o InsertSorted(Tail(sorted), x)

RECURSIVE SortList(_)
\* list.sort() on a list of str (stable, ascending)
SortList(l) ==
    IF l = <<>> THEN <<>>
    ELSE InsertSorted(SortList(SubSeq(l, 1, Len(l) - 1)), l[Len(l)])

RECURSIVE ParseNat(_)
ParseNat(s) == IF s = <<>> THEN 0 ELSE 10 * ParseNat(SubSeq(s, 1, Len(s) - 1)) + DigitVal(s[Len(s)])

\* int(s) accepts an optional sign followed by digits
IsIntLiteral(s) ==
    \/ s # <<>> /\ AllDigits(s)
    \/ Len(s) >= 2 /\ s[1] \in {"+", "-"} /\ AllDigits(Tail(s))

ParseInt(s) ==
    IF s[1] = "-" THEN 0 - ParseNat(Tail(s))
    ELSE IF s[1] = "+" THEN ParseNat(Tail(s))
    ELSE ParseNat(s)

\* ------------------------------------------------------------------------
\* Python values: None, a str, or a list of str
\* ------------------------------------------------------------------------
NoneV == [kind |-> "none", s |-> <<>>, l |-> <<>>]

StrV(s) == [kind |-> "str", s |-> s, l |-> <<>>]

ListV(l) == [kind |-> "list", s |-> <<>>, l |-> l]

\* bool(v)
Truthy(v) ==
    CASE v.kind = "none" -> FALSE
      [] v.kind = "str"  -> v.s # <<>>
      [] v.kind = "list" -> v.l # <<>>

\* repr(s) of a str inside str(list)
Repr(s) ==
    IF (\E i \in DOMAIN s : s[i] = "'") /\ ~(\E i \in DOMAIN s : s[i] = "\"")
    THEN <<"\"">> \o s \o <<"\"">>
    ELSE <<"'">> \o s \o <<"'">>

\* str(v)
str(v) ==
    CASE v.kind = "none" -> <<"N", "o", "n", "e">>
      [] v.kind = "str"  -> v.s
      [] v.kind = "list" -> <<"[">> \o Join(<<",", " ">>, [i \in DOMAIN v.l |-> Repr(v.l[i])]) \o <<"]">>

\* a dict is a sequence of [name, value] entries with distinct names, in
\* insertion order
HasKey(d, key) == \E i \in DOMAIN d : d[i].name = key

Lookup(d, key) == d[CHOOSE i \in DOMAIN d : d[i].name = key].value

\* d.pop(key, None)
Pop(d, key) == SelectSeq(d, LAMBDA e : e.name # key)

\* the pops left out: every key stays
PopAll_kept(d, keys) == d

RECURSIVE PopAll(_, _)
PopAll(d, keys) == IF keys = <<>> THEN d ELSE PopAll(Pop(d, keys[1]), Tail(keys))

\* d[key] = value
DictSet(d, key, value) ==
    IF HasKey(d, key)
    THEN [i \in DOMAIN d |-> IF d[i].name = key THEN [name |-> key, value |-> value] ELSE d[i]]
    ELSE Append(d, [name |-> key, value |-> value])

get_obj_property(key, param) == IF HasKey(param, key) THEN Lookup(param, key) ELSE NoneV

stringify(p) ==
    IF p.kind = "list" THEN Join(<<" ">>, p.l) ELSE str(p)

listify(p) ==
    IF p.kind = "str" THEN <<p.s>>
    ELSE IF p.kind = "list" THEN p.l
    ELSE <<str(p)>>

ALLOWED_FACETS == <<
    <<"a","u","t","h","o","r","_","s","m">>,
    <<"e","d","i","t","o","r","_","s","m">>,
    <<"l","a","n","g","_","s","m">>,
    <<"m","s","_","d","a","t","e","_","s","m">>,
    <<"m","s","_","d","a","t","e","c","e","r","t","_","s">>,
    <<"m","s","_","o","r","i","g","i","n","_","s","m">>,
    <<"w","k","_","s","u","b","j","e","c","t","s","_","s","m">>,
    <<"m","s","_","m","a","t","e","r","i","a","l","s","_","s","m">>,
    <<"m","s","_","d","e","c","o","t","y","p","e","_","s","m">>,
    <<"m","s","_","m","u","s","i","c","_","b">>,
    <<"m","s","_","b","i","n","d","i","n","g","d","a","t","e","_","s","m">>,
    <<"m","s","_","d","i","g","i","t","i","z","e","d","_","s">>,
    <<"m","s","_","r","e","p","o","s","i","t","o","r","y","_","s">>,
    <<"m","s","_","c","o","l","l","e","c","t","i","o","n","_","s">> >>

InList(x, l) == \E i \in DOMAIN l : l[i] = x

\* ------------------------------------------------------------------------
\* generate_datestring
\* ------------------------------------------------------------------------
\* generate_datestring without the zero padding of the components
generate_datestring_unpadded(year, month, day) ==
    IF Truthy(year) /\ ~(Truthy(day) /\ ~Truthy(month))
    THEN LET given == SelectSeq(<<year, month, day>>, LAMBDA v : v.kind # "none")
         IN  Join(<<"-">>, [i \in DOMAIN given |-> str(given[i])])
    ELSE NoneStr

\* generate_datestring without the day-without-month test
generate_datestring_anyday(year, month, day) ==
    IF Truthy(year)
    THEN LET given == SelectSeq(<<year, month, day>>, LAMBDA v : v.kind # "none")
         IN  Join(<<"-">>, [i \in DOMAIN given |-> zfill(str(given[i]), 2)])
    ELSE NoneStr

generate_datestring(year, month, day) ==
    IF Truthy(year) /\ ~(Truthy(day) /\ ~Truthy(month))
    THEN LET given == SelectSeq(<<year, month, day>>, LAMBDA v : v.kind # "none")
             valid_tokens == [i \in DOMAIN given |-> zfill(str(given[i]), 2)]
         IN  Join(<<"-">>, valid_tokens)
    ELSE NoneStr

\* bool(x) of an Optional[str]
TruthyStr(x) == x # NoneStr /\ x # <<>>

\* ------------------------------------------------------------------------
\* translate_params
\* ------------------------------------------------------------------------
solr_delete == <<s_text, s_keyword, s_sectionType, s_search_date_type>>

solr_fields == <<s_text_field, s_content_textual, s_content_footnotes, s_content_summary>>

remap_fields == <<s_day, s_month, s_dateRange>>

date_params == <<s_year, s_month, s_day, s_year_max, s_month_max, s_day_max, s_search_date_type>>

fields == <<s_facet_year, s_facet_year_month, s_facet_year_month_day>>

\* '{!field f=dateRange op=%s}%s' % (predicate_type, result)
DateRangeClause(predicate_type, result) ==
    s_field_prefix \o predicate_type \o <<"}">> \o result

\* '[%s TO %s]' % (lo, hi)
RangeExpr(lo, hi) == <<"[">> \o lo \o s_TO \o hi \o <<"]">>

\* '%s:"%s"' % (name, value)
FacetClause(name, value) == name \o <<":", "\"">> \o value \o <<"\"">>

\* ":".join([name, "(%s)" % val_string])
FieldClause(name, val_string) == name \o <<":">> \o <<"(">> \o val_string \o <<")">>

\* 'f.%s.facet.contains' % field
HintKey(field) == s_hint_prefix \o field \o s_hint_suffix

\* set_params = {k: v for k, v in url_params.items() if v}
DropEmpty(url) == SelectSeq(url, LAMBDA e : Truthy(e.value))

\* search_date_type in 'after'  (a substring test; the left operand must be a str)
InAfter(search_date_type) == IsSubstring(search_date_type.s, s_after)

\* the branch on the single min date (no max date, not 'between')
SingleDateClause(date_min, search_date_type) ==
    IF InAfter(search_date_type)
    THEN DateRangeClause(s_Intersects, RangeExpr(date_min, s_max_default))
    ELSE IF search_date_type = StrV(s_before)
    THEN DateRangeClause(s_Intersects, RangeExpr(s_before_bound, date_min))
    ELSE DateRangeClause(s_Within, date_min)

\* the compound date block: the working set after it, the filter clauses it
\* appends, and the exception it raises (if any)
DateBlock(set_params) ==
    LET date_min == generate_datestring(get_obj_property(s_year, set_params),
                                        get_obj_property(s_month, set_params),
                                        get_obj_property(s_day, set_params))
        date_max == generate_datestring(get_obj_property(s_year_max, set_params),
                                        get_obj_property(s_month_max, set_params),
                                        get_obj_property(s_day_max, set_params))
        search_date_type == get_obj_property(s_search_date_type, set_params)
    IN  IF TruthyStr(date_min) \/ search_date_type = StrV(s_between)
        THEN LET popped == PopAll(set_params, date_params)
             IN  IF TruthyStr(date_max) \/ search_date_type = StrV(s_between)
                 THEN LET date_max_final == IF TruthyStr(date_max) THEN date_max ELSE s_max_default
                          date_min_final == IF TruthyStr(date_min) THEN date_min ELSE s_min_default
                      IN  [set_params |-> popped,
                           fq |-> <<DateRangeClause(s_Intersects, RangeExpr(date_min_final, date_max_final))>>,
                           raised |-> "no"]
                 ELSE IF search_date_type.kind # "str"
                 THEN [set_params |-> popped, fq |-> <<>>, raised |-> "TypeError"]
                 ELSE [set_params |-> popped,
                       fq |-> <<SingleDateClause(date_min, search_date_type)>>,
                       raised |-> "no"]
        ELSE [set_params |-> Pop(set_params, s_search_date_type), fq |-> <<>>, raised |-> "no"]

\* re.match(r'^f[0-9]+-date$', name)
MatchesDateFacet(name) ==
    /\ Len(name) >= 7
    /\ name[1] = "f"
    /\ EndsWith(name, s_dash_date)
    /\ AllDigits(SubSeq(name, 2, Len(name) - 5))

\* re.match(r'^(facet|s)-.+?$', name)
MatchesSiteFacet(name) ==
    \/ StartsWith(name, s_facet_dash) /\ Len(name) > Len(s_facet_dash)
    \/ StartsWith(name, s_s_dash) /\ Len(name) > Len(s_s_dash)

\* re.sub(r'^f[0-9]+-(.+?)$', r'facet-\1', name)
LegacyRewrite(name) ==
    IF \E i \in 3..(Len(name) - 1) :
           name[1] = "f" /\ AllDigits(SubSeq(name, 2, i - 1)) /\ name[i] = "-"
    THEN LET i == CHOOSE j \in 3..(Len(name) - 1) :
                      name[1] = "f" /\ AllDigits(SubSeq(name, 2, j - 1)) /\ name[j] = "-"
         IN  s_facet_dash \o SubSeq(name, i + 1, Len(name))
    ELSE name

\* HintValue giving every level the whole date
HintValue_whole(date, date_parts, num_parts, index) == StripQuotes(date)

\* the value of the 'contains' hint of level index (0-based) for one date
HintValue(date, date_parts, num_parts, index) ==
    IF num_parts - 1 <= index
    THEN StripQuotes(date)
    ELSE StripQuotes(Join(s_sep, SubSeq(date_parts, 1, index + 1)))

\* the level field a date of num_parts parts filters on; other part counts
\* leave solr_name as it was
LevelField(num_parts, solr_name) ==
    CASE num_parts = 1 -> s_facet_year
      [] num_parts = 2 -> s_facet_year_month
      [] num_parts = 3 -> s_facet_year_month_day
      [] OTHER -> solr_name

RECURSIVE SetHints(_, _, _, _, _)
\* for index, field in enumerate(fields): filter['f.%s.facet.contains' % field] = ...
SetHints(filter, date, date_parts, num_parts, index) ==
    IF index >= Len(fields) THEN filter
    ELSE SetHints(DictSet(filter, HintKey(fields[index + 1]),
                          HintValue(date, date_parts, num_parts, index)),
                  date, date_parts, num_parts, index + 1)

RECURSIVE ExpandDates(_, _)
\* for date in val_list: ...
ExpandDates(st, val_list) ==
    IF val_list = <<>> THEN st
    ELSE LET date == StripQuotes(val_list[1])
             date_parts == Split(date, s_sep)
             num_parts == Len(date_parts)
             solr_name == LevelField(num_parts, st.solr_name)
         IN  ExpandDates([st EXCEPT !.solr_name = solr_name,
                                    !.filter = SetHints(@, date, date_parts, num_parts, 0),
                                    !.fq = Append(@, FacetClause(solr_name, StripQuotes(date)))],
                         Tail(val_list))

RECURSIVE AppendFacets(_, _, _)
\* for x in listify(value): fq.append('%s:"%s"' % (solr_name, unquoted x))
AppendFacets(fq, solr_name, values) ==
    IF values = <<>> THEN fq
    ELSE AppendFacets(Append(fq, FacetClause(solr_name, StripQuotes(values[1]))), solr_name, Tail(values))

\* set_params['sort'][0]: the first element of a list, the first character of a str
SortRaw(value) == IF value.kind = "list" THEN value.l[1] ELSE <<value.s[1]>>

\* the compiled sort expression
SortExpr(sort_raw) ==
    LET sort_val == IF InList(sort_raw, <<s_title, s_date>>) THEN sort_raw ELSE s_score
        sort_order == IF sort_val = s_score THEN s_desc ELSE s_asc
    IN  Join(<<" ">>, <<sort_val, sort_order>>)

\* one iteration of "for name in set_params.keys()"
ProcessParam(st, name) ==
    LET value == Lookup(st.set_params, name)
    IN  IF ~Truthy(get_obj_property(name, st.set_params)) THEN st
        ELSE IF InList(name, remap_fields)
        THEN [st EXCEPT !.q = Append(@, FieldClause(name, stringify(value)))]
        ELSE IF InList(name, <<s_keyword, s_text>>)
        THEN [st EXCEPT !.q = Append(@, <<"(">> \o stringify(value) \o <<")">>)]
        ELSE IF MatchesDateFacet(name)
        THEN IF value.kind # "list"
             THEN [st EXCEPT !.raised = "AttributeError"]
             ELSE LET val_list == SortList(value.l)
                  IN  ExpandDates([st EXCEPT !.set_params = DictSet(@, name, ListV(val_list)),
                                             !.url_params = DictSet(@, name, ListV(val_list))],
                                  val_list)
        ELSE IF InList(name, ALLOWED_FACETS)
        THEN LET solr_name == LegacyRewrite(name)
             IN  [st EXCEPT !.solr_name = solr_name,
                            !.fq = AppendFacets(@, solr_name, listify(value))]
        ELSE IF MatchesSiteFacet(name)
        THEN IF value.kind # "str"
             THEN [st EXCEPT !.raised = "TypeError"]
             ELSE [st EXCEPT !.fq = Append(@, FacetClause(name, StripQuotes(value.s)))]
        ELSE IF name = s_page
        THEN IF value.kind # "str"
             THEN [st EXCEPT !.raised = "TypeError"]
             ELSE IF ~IsIntLiteral(value.s)
             THEN [st EXCEPT !.raised = "ValueError"]
             ELSE [st EXCEPT !.start = <<(ParseInt(value.s) - 1) * 20>>]
        ELSE IF name = s_sort
        THEN [st EXCEPT !.sort = SortExpr(SortRaw(value))]
        ELSE IF name # s_rows
        THEN [st EXCEPT !.q = Append(@, FieldClause(name, stringify(value)))]
        ELSE st

RECURSIVE ProcessParams(_, _)
\* for name in set_params.keys(): ...   (an exception ends the loop)
ProcessParams(st, names) ==
    IF names = <<>> \/ st.raised # "no" THEN st
    ELSE ProcessParams(ProcessParam(st, names[1]), Tail(names))

\* the all-records hack on the joined free-text clause
NormalizeQ(final_q) ==
    IF InList(final_q, <<s_list_star, s_list_empty>>) THEN s_star ELSE final_q

\* translate_params(resource_type, **url_params): the caller's parameters
\* after the call, and either the compiled query or the exception raised
translate_params(url_params) ==
    LET set_params == DropEmpty(url_params)
        dated == DateBlock(set_params)
        st0 == [set_params |-> dated.set_params, url_params |-> url_params,
                q |-> <<>>, fq |-> dated.fq, filter |-> <<>>, solr_name |-> <<>>,
                start |-> <<>>, sort |-> NoneStr, raised |-> dated.raised]
        st == ProcessParams(st0, [i \in DOMAIN dated.set_params |-> dated.set_params[i].name])
        final_q == NormalizeQ(Join(<<" ">>, st.q))
    IN  IF st.raised # "no"
        THEN [raised |-> st.raised, url_params |-> st.url_params,
              q |-> <<>>, q_parts |-> <<>>, fq |-> <<>>, start |-> <<>>, sort |-> NoneStr, filter |-> <<>>]
        ELSE [raised |-> "no", url_params |-> st.url_params,
              q |-> NormalizeQ(final_q), q_parts |-> st.q, fq |-> st.fq,
              start |-> st.start, sort |-> st.sort,
              filter |-> PopAll(st.filter, solr_delete \o solr_fields)]

\* ------------------------------------------------------------------------
\* Requests to translate_params
\* ------------------------------------------------------------------------
\* the most parameters of a request besides the date components
MaxExtra == 1

\* the most values of a repeated parameter
MaxValues == 2

v_1300 == <<"1","3","0","0">>
v_5 == <<"5">>
v_12 == <<"1","2">>
v_1350 == <<"1","3","5","0">>
v_6 == <<"6">>
v_exact == <<"e","x","a","c","t">>
v_aft == <<"a","f","t">>
v_bede == <<"b","e","d","e">>
v_1300_05 == <<"1","3","0","0",":",":","0","5">>
v_q1300_05_12 == <<"\"","1","3","0","0",":",":","0","5",":",":","1","2","\"">>
v_qBede == <<"\"","B","e","d","e","\"">>
v_Alcuin == <<"A","l","c","u","i","n">>
v_qla == <<"\"","l","a","\"">>
v_la == <<"l","a">>
v_3 == <<"3">>
v_abc == <<"a","b","c">>
v_relevance == <<"r","e","l","e","v","a","n","c","e">>
v_20 == <<"2","0">>
v_psalter == <<"p","s","a","l","t","e","r">>
n_f1_date == <<"f","1","-","d","a","t","e">>
n_f3_author_sm == <<"f","3","-","a","u","t","h","o","r","_","s","m">>
n_author_sm == <<"a","u","t","h","o","r","_","s","m">>
n_facet_lang == <<"f","a","c","e","t","-","l","a","n","g">>
n_ms_title_t == <<"m","s","_","t","i","t","l","e","_","t">>

\* every sequence of 1..n distinct elements of the set S
DistinctSeqs(S, n) ==
    UNION {{sq \in [1..k -> S] : \A i, j \in 1..k : i # j => sq[i] # sq[j]} : k \in 1..n}

\* the values each date component may take when it is supplied
DateValues ==
    <<[name |-> s_year,             values |-> {StrV(v_1300)}],
      [name |-> s_month,            values |-> {StrV(v_5)}],
      [name |-> s_day,              values |-> {StrV(v_12)}],
      [name |-> s_year_max,         values |-> {StrV(v_1350)}],
      [name |-> s_month_max,        values |-> {StrV(v_6)}],
      [name |-> s_search_date_type, values |-> {StrV(<<>>), StrV(v_exact), StrV(s_after),
                                                StrV(s_before), StrV(s_between), StrV(v_aft)}]>>

\* the other parameters and the values each may take
ExtraValues ==
    <<[name |-> s_keyword,      values |-> {ListV(<<>>)} \cup {ListV(l) : l \in DistinctSeqs({v_bede, s_star}, MaxValues)}],
      [name |-> n_f1_date,      values |-> {StrV(v_1300_05)} \cup
                                           {ListV(l) : l \in DistinctSeqs({v_1300, v_1300_05, v_q1300_05_12}, MaxValues)}],
      [name |-> n_f3_author_sm, values |-> {ListV(<<v_qBede>>)}],
      [name |-> n_author_sm,    values |-> {ListV(<<v_qBede>>), ListV(<<v_qBede, v_Alcuin>>)}],
      [name |-> n_facet_lang,   values |-> {StrV(v_qla), ListV(<<v_la>>)}],
      [name |-> s_page,         values |-> {StrV(v_3), StrV(v_abc)}],
      [name |-> s_sort,         values |-> {NoneV, StrV(s_title), StrV(v_relevance),
                                            ListV(<<s_title>>), ListV(<<s_date>>), ListV(<<v_relevance>>)}],
      [name |-> s_rows,         values |-> {StrV(v_20)}],
      [name |-> n_ms_title_t,   values |-> {ListV(<<v_psalter>>)}],
      [name |-> s_dateRange,    values |-> {StrV(v_1300)}]>>

RECURSIVE ParamChoices(_, _, _)
\* the dicts that take at most budget of the parameters table[i..], in the
\* table's order, each with one of its values
ParamChoices(table, i, budget) ==
    IF i > Len(table) \/ budget = 0 THEN {<<>>}
    ELSE ParamChoices(table, i + 1, budget) \cup
         {<<[name |-> table[i].name, value |-> v]>> \o rest :
             v \in table[i].values, rest \in ParamChoices(table, i + 1, budget - 1)}

\* the requests of the model: date components first, then at most MaxExtra
\* other parameters
Requests ==
    {d \o e : d \in ParamChoices(DateValues, 1, Len(DateValues)),
              e \in ParamChoices(ExtraValues, 1, MaxExtra)}

\* ------------------------------------------------------------------------
\* The frontend's translation of one request
\* ------------------------------------------------------------------------
VARIABLES
    pc,          \* "call" before translate_params runs, "return" after
    request,     \* the parameters as the caller supplied them
    url_params,  \* the caller's parameter objects (translate_params sorts in place)
    solr_params, \* what translate_params returned or raised
    ipc,         \* /items of src/main.py: position of the request
    items_req,   \* /items of src/main.py: the request's q, fq, sort, start, rows
    kwargs,      \* the params get_items hands to get_request
    sent,        \* the params get_request sends to the backend
    response,    \* responseHeader.params of the backend's answer
    reported     \* responseHeader.params of the result returned to the caller

vars == <<pc, request, url_params, solr_params, ipc, items_req, kwargs, sent, response, reported>>

translate_vars == <<pc, request, url_params, solr_params>>

items_vars == <<ipc, items_req, kwargs, sent, response, reported>>

NoResult == [raised |-> "pending", url_params |-> <<>>, q |-> <<>>, q_parts |-> <<>>, fq |-> <<>>,
             start |-> <<>>, sort |-> NoneStr, filter |-> <<>>]

ItemsIdle ==
    /\ ipc = "idle"
    /\ items_req = <<>>
    /\ kwargs = <<>>
    /\ sent = <<>>
    /\ response = <<>>
    /\ reported = <<>>

Init ==
    /\ pc = "call"
    /\ request \in Requests
    /\ url_params = request
    /\ solr_params = NoResult
    /\ ItemsIdle

\* solr_params = translate_params(core, **params)
TranslateParams ==
    /\ pc = "call"
    /\ LET r == translate_params(url_params)
       IN  /\ solr_params' = r
           /\ url_params' = r.url_params
    /\ pc' = "return"
    /\ UNCHANGED <<request, items_vars>>

Next == TranslateParams

Spec == Init /\ [][Next]_vars

\* ------------------------------------------------------------------------
\* Properties of translate_params
\* ------------------------------------------------------------------------
Returned == pc = "return" /\ solr_params.raised = "no"

\* the value the caller supplied for a parameter, with empty values absent
Supplied(name) == get_obj_property(name, DropEmpty(request))

Has(name) == Supplied(name).kind # "none"

OnlyDateParams == \A i \in DOMAIN request : InList(request[i].name, date_params)

DateClauses == {i \in DOMAIN solr_params.fq : StartsWith(solr_params.fq[i], s_field_prefix)}

InFq(clause) == \E i \in DOMAIN solr_params.fq : solr_params.fq[i] = clause

InQParts(part) == \E i \in DOMAIN solr_params.q_parts : solr_params.q_parts[i] = part

\* a one- or two-digit component written with two digits
Pad2(s) == IF Len(s) = 1 THEN <<"0">> \o s ELSE s

\* YYYY[-MM[-DD]] of the supplied components
TokenOf(y, m, d) ==
    Supplied(y).s
      \o (IF Has(m) THEN <<"-">> \o Pad2(Supplied(m).s) ELSE <<>>)
      \o (IF Has(d) THEN <<"-">> \o Pad2(Supplied(d).s) ELSE <<>>)

HasMinToken == Has(s_year) /\ (Has(s_day) => Has(s_month))

HasMaxToken == Has(s_year_max) /\ (Has(s_day_max) => Has(s_month_max))

x_intersects_1300_05_1350 == <<"{","!","f","i","e","l","d"," ","f","=","d","a","t","e","R","a","n","g","e"," ","o","p","=","I","n","t","e","r","s","e","c","t","s","}","[","1","3","0","0","-","0","5"," ","T","O"," ","1","3","5","0","]">>
x_op_within == <<"{","!","f","i","e","l","d"," ","f","=","d","a","t","e","R","a","n","g","e"," ","o","p","=","W","i","t","h","i","n","}">>
x_op_intersects == <<"{","!","f","i","e","l","d"," ","f","=","d","a","t","e","R","a","n","g","e"," ","o","p","=","I","n","t","e","r","s","e","c","t","s","}">>

\* C1: translate_params returns a compiled query for every request and
\* never raises.
C1_NeverRaises == pc = "return" => solr_params.raised = "no"

\* C2: every compiled query of a request with a valid min token and
\* search-date-type 'exact' has exactly one dateRange filter clause: Within
\* on the min token YYYY[-MM[-DD]] when there is no max token, Intersects on
\* '[<minToken> TO <maxToken>]' when there is one.
C2_DatePrecedence ==
    (Returned /\ HasMinToken /\ Supplied(s_search_date_type) = StrV(v_exact)) =>
        /\ Cardinality(DateClauses) = 1
        /\ IF HasMaxToken
           THEN InFq(x_op_intersects \o <<"[">> \o TokenOf(s_year, s_month, s_day) \o s_TO
                         \o TokenOf(s_year_max, s_month_max, s_day_max) \o <<"]">>)
           ELSE InFq(x_op_within \o TokenOf(s_year, s_month, s_day))

C2_Witness ==
    /\ Returned
    /\ Supplied(s_year) = StrV(v_1300) /\ Supplied(s_month) = StrV(v_5) /\ ~Has(s_day)
    /\ Supplied(s_year_max) = StrV(v_1350)
    /\ Supplied(s_search_date_type) = StrV(v_exact)
    /\ solr_params.fq = <<x_intersects_1300_05_1350>>

\* C3: for a request of date components with a min token and no max token
\* (search-date-type not 'between', which the range row decides), a query is
\* compiled and its dateRange clause is Intersects from the min token iff
\* search-date-type is 'after', Intersects up to the min token iff it is
\* 'before', and Within on the min token otherwise, an absent
\* search-date-type included.
C3_SingleDateDecision ==
    (pc = "return" /\ OnlyDateParams /\ HasMinToken /\ ~HasMaxToken
        /\ Supplied(s_search_date_type) # StrV(s_between)) =>
        LET min == TokenOf(s_year, s_month, s_day)
            sdt == Supplied(s_search_date_type)
        IN  /\ solr_params.raised = "no"
            /\ InFq(x_op_intersects \o <<"[">> \o min \o s_TO \o s_max_default \o <<"]">>)
                   <=> sdt = StrV(s_after)
            /\ InFq(x_op_intersects \o <<"[">> \o s_before_bound \o s_TO \o min \o <<"]">>)
                   <=> sdt = StrV(s_before)
            /\ InFq(x_op_within \o min) <=> sdt \notin {StrV(s_after), StrV(s_before)}

DayWithoutMonth ==
    /\ Returned
    /\ Has(s_year) /\ Has(s_day) /\ ~Has(s_month)
    /\ Supplied(s_search_date_type) # StrV(s_between)

\* a free-text part or filter clause derived from the parameter name
FromParam(clause, name) == StartsWith(clause, name \o <<":">>)

\* C4 as claimed: with year and day but no month (search-date-type not
\* 'between') there is no dateRange clause and neither 'year' nor 'day'
\* appears in q or in a filter clause.
C4_Dropped ==
    DayWithoutMonth =>
        /\ DateClauses = {}
        /\ \A n \in {s_year, s_day} :
              /\ \A i \in DOMAIN solr_params.q_parts : ~FromParam(solr_params.q_parts[i], n)
              /\ \A i \in DOMAIN solr_params.fq : ~FromParam(solr_params.fq[i], n)
              /\ ~IsSubstring(n \o <<":">>, solr_params.q)

\* C4 as amended: with year and day but no month (search-date-type not
\* 'between') there is no dateRange clause, but 'year' and 'day' are kept:
\* each gives the free-text part '<name>:(<value>)' of q, and neither
\* appears in a filter clause.
C4_DayWithoutMonthKept ==
    DayWithoutMonth =>
        /\ DateClauses = {}
        /\ \A n \in {s_year, s_day} :
              /\ InQParts(n \o <<":", "(">> \o Supplied(n).s \o <<")">>)
              /\ IsSubstring(n \o <<":", "(">> \o Supplied(n).s \o <<")">>, solr_params.q)
              /\ \A i \in DOMAIN solr_params.fq : ~FromParam(solr_params.fq[i], n)

x_year_day == <<"y","e","a","r",":","(","1","3","0","0",")"," ","d","a","y",":","(","1","2",")">>

C4_Witness ==
    /\ Returned
    /\ request = <<[name |-> s_year, value |-> StrV(v_1300)], [name |-> s_day, value |-> StrV(v_12)]>>
    /\ solr_params.q = x_year_day
    /\ solr_params.fq = <<>>

x_facet_author_Bede == <<"f","a","c","e","t","-","a","u","t","h","o","r","_","s","m",":","\"","B","e","d","e","\"">>

\* C5: a parameter named f<digits>-<name> (not f<digits>-date) gives the
\* filter clause 'facet-<name>:"<value>"' for each value, quotes stripped and
\* put back once, and no free-text part ('f3-author_sm' with '"Bede"' gives
\* 'facet-author_sm:"Bede"').
C5_LegacyFacetRewrite ==
    (Returned /\ Supplied(n_f3_author_sm) = ListV(<<v_qBede>>)) =>
        /\ InFq(x_facet_author_Bede)
        /\ \A i \in DOMAIN solr_params.q_parts : ~FromParam(solr_params.q_parts[i], n_f3_author_sm)

x_hint_year == <<"f",".","f","a","c","e","t","-","y","e","a","r",".","f","a","c","e","t",".","c","o","n","t","a","i","n","s">>
x_hint_year_month == <<"f",".","f","a","c","e","t","-","y","e","a","r","-","m","o","n","t","h",".","f","a","c","e","t",".","c","o","n","t","a","i","n","s">>
x_hint_year_month_day == <<"f",".","f","a","c","e","t","-","y","e","a","r","-","m","o","n","t","h","-","d","a","y",".","f","a","c","e","t",".","c","o","n","t","a","i","n","s">>
x_1300_05_12 == <<"1","3","0","0",":",":","0","5",":",":","1","2">>
x_ym_1300_05 == <<"f","a","c","e","t","-","y","e","a","r","-","m","o","n","t","h",":","\"","1","3","0","0",":",":","0","5","\"">>

HintKeys == <<x_hint_year, x_hint_year_month, x_hint_year_month_day>>

\* the date-facet values of the requests: their depth, and the unquoted
\* value of depth k, which is also the prefix of k parts of the deeper ones
DatePrefixes == <<v_1300, v_1300_05, x_1300_05_12>>

DepthOf(raw) == CASE raw = v_1300 -> 1 [] raw = v_1300_05 -> 2 [] raw = v_q1300_05_12 -> 3

\* the value that is last in ascending order
LastDate(l) ==
    IF InList(v_1300_05, l) THEN v_1300_05
    ELSE IF InList(v_1300, l) THEN v_1300
    ELSE v_q1300_05_12

DateFacetCase == Returned /\ Supplied(n_f1_date).kind = "list"

DateFacetClauses ==
    \A i \in DOMAIN Supplied(n_f1_date).l :
        LET n == DepthOf(Supplied(n_f1_date).l[i])
        IN  InFq(fields[n] \o <<":", "\"">> \o DatePrefixes[n] \o <<"\"">>)

\* C6 as claimed: a date-facet value of n parts gives a filter clause on the
\* level field of depth n, the 'contains' hint of every level at or below
\* depth n, and no hint for a level above depth n.
C6_NoHintAbove ==
    DateFacetCase =>
        /\ DateFacetClauses
        /\ LET n == DepthOf(LastDate(Supplied(n_f1_date).l))
           IN  \A k \in 1..3 :
                   IF k >= n
                   THEN HasKey(solr_params.filter, HintKeys[k])
                        /\ Lookup(solr_params.filter, HintKeys[k]) = DatePrefixes[n]
                   ELSE ~HasKey(solr_params.filter, HintKeys[k])

\* C6 as amended: a date-facet value of n parts gives a filter clause on the
\* level field of depth n, and the 'contains' hints of all three levels are
\* set: to the unquoted value for a level at or below depth n, to the value's
\* prefix of k parts for the level k above depth n.  The hints left are those
\* of the value that is last in ascending order.
C6_HintsOnAllLevels ==
    DateFacetCase =>
        /\ DateFacetClauses
        /\ LET n == DepthOf(LastDate(Supplied(n_f1_date).l))
           IN  \A k \in 1..3 :
                   /\ HasKey(solr_params.filter, HintKeys[k])
                   /\ Lookup(solr_params.filter, HintKeys[k]) =
                          IF k >= n THEN DatePrefixes[n] ELSE DatePrefixes[k]

C6_Witness ==
    /\ Returned
    /\ Supplied(n_f1_date) = ListV(<<v_1300_05>>)
    /\ InFq(x_ym_1300_05)
    /\ HasKey(solr_params.filter, x_hint_year)
    /\ Lookup(solr_params.filter, x_hint_year) = v_1300
    /\ Lookup(solr_params.filter, x_hint_year_month_day) = v_1300_05

x_score_desc == <<"s","c","o","r","e"," ","d","e","s","c">>
x_space_asc == <<" ","a","s","c">>

\* C7: the compiled sort is '<v> asc' when the first value v of 'sort' is
\* 'title' or 'date' and 'score desc' otherwise, for a scalar 'sort' as for a
\* list.
C7_SortMapping ==
    (Returned /\ Has(s_sort)) =>
        LET v == IF Supplied(s_sort).kind = "str" THEN Supplied(s_sort).s ELSE Supplied(s_sort).l[1]
        IN  solr_params.sort = IF v \in {s_title, s_date} THEN v \o x_space_asc ELSE x_score_desc

\* C8: q of a compiled query is never empty, and is '*' when no parameter
\* gave a free-text part.
C8_AllMatch ==
    Returned =>
        /\ solr_params.q # <<>>
        /\ solr_params.q_parts = <<>> => solr_params.q = s_star

\* ------------------------------------------------------------------------
\* src/main.py: /items with the collection-relative sort
\* ------------------------------------------------------------------------
s_collection_colon == <<"c","o","l","l","e","c","t","i","o","n",":">>
s_collection_sort == <<"c","o","l","l","e","c","t","i","o","n","_","s","o","r","t">>
s_collection_sort_space == <<"c","o","l","l","e","c","t","i","o","n","_","s","o","r","t"," ">>
s_underscore_sort == <<"_","s","o","r","t">>
s_AND == <<" ","A","N","D"," ">>

\* re.sub(r'\s', '_', s) leaving the string as it is
Underscored_unchanged(s) == s

\* re.sub(r'\s', '_', s)
Underscored(s) == [i \in DOMAIN s |-> IF IsSpace(s[i]) THEN "_" ELSE s[i]]

RECURSIVE Strip(_)
\* s.strip()
Strip(s) ==
    IF s # <<>> /\ IsSpace(s[1]) THEN Strip(Tail(s))
    ELSE IF s # <<>> /\ IsSpace(s[Len(s)]) THEN Strip(SubSeq(s, 1, Len(s) - 1))
    ELSE s

RECURSIVE SkipSpaces(_)
SkipSpaces(s) == IF s # <<>> /\ IsSpace(s[1]) THEN SkipSpaces(Tail(s)) ELSE s

\* re.search(r'collection_sort\s*(asc|desc)', s)
HasSortDirection(s) ==
    \E i \in DOMAIN s :
        /\ StartsWith(SubSeq(s, i, Len(s)), s_collection_sort)
        /\ LET rest == SkipSpaces(SubSeq(s, i + Len(s_collection_sort), Len(s)))
           IN  StartsWith(rest, s_asc) \/ StartsWith(rest, s_desc)

\* 'collection_sort (asc|desc)' matches at position i of s
DirectionAt(s, i) ==
    \/ StartsWith(SubSeq(s, i, Len(s)), s_collection_sort_space \o s_asc)
    \/ StartsWith(SubSeq(s, i, Len(s)), s_collection_sort_space \o s_desc)

\* re.sub(r'^.*collection_sort (asc|desc).*$', r'\1', sort): the direction of
\* the last match, or sort unchanged when there is none
SortDirection(sort) ==
    IF \E i \in DOMAIN sort : DirectionAt(sort, i)
    THEN LET i == CHOOSE j \in DOMAIN sort :
                      DirectionAt(sort, j) /\ \A k \in DOMAIN sort : DirectionAt(sort, k) => k <= j
         IN  IF StartsWith(SubSeq(sort, i, Len(sort)), s_collection_sort_space \o s_asc)
             THEN s_asc ELSE s_desc
    ELSE sort

\* the sort get_items passes on, given the first 'collection:' clause
RewrittenSort(sort, collection_facet) ==
    IF HasSortDirection(Strip(sort))
    THEN LET collection_name_raw == SubSeq(collection_facet, Len(s_collection_colon) + 1, Len(collection_facet))
             collection_name == Underscored(collection_name_raw)
             sort_field == collection_name \o s_underscore_sort
         IN  Join(<<" ">>, <<sort_field, SortDirection(sort)>>)
    ELSE sort

\* get_items up to the call of get_request: the kwargs of that call, or the
\* exception raised (filter() over an fq of None)
get_items(req) ==
    IF req.fq.kind # "list"
    THEN [raised |-> "TypeError"]
    ELSE LET fq_filtered == SelectSeq(req.fq.l, LAMBDA c : StartsWith(c, s_collection_colon))
             collection_facet == IF fq_filtered # <<>> THEN fq_filtered[1] ELSE NoneStr
             by_collection == TruthyStr(req.sort) /\ StartsWith(req.sort, s_collection_sort)
             original_sort == IF by_collection THEN req.sort ELSE NoneStr
             sort == IF by_collection /\ TruthyStr(collection_facet)
                     THEN RewrittenSort(req.sort, collection_facet)
                     ELSE req.sort
             q_final == IF req.q.kind = "list" THEN Join(s_AND, req.q.l) ELSE NoneStr
             rows_final == IF req.rows \in {<<8>>, <<20>>} THEN req.rows[1] ELSE 20
         IN  [raised |-> "no",
              keys |-> {"q", "fq", "sort", "start", "rows", "original_sort"},
              q |-> q_final, fq |-> req.fq, sort |-> sort, start |-> req.start,
              rows |-> rows_final, original_sort |-> original_sort]

\* solr_params = kwargs.copy(); del solr_params['original_sort']
BackendParams(kw) ==
    [keys |-> kw.keys \ {"original_sort"},
     q |-> kw.q, fq |-> kw.fq, sort |-> kw.sort, start |-> kw.start, rows |-> kw.rows]

\* the restoration of the sort in result['responseHeader']['params']
Restored(kw, params) ==
    IF "original_sort" \in kw.keys /\ "sort" \in params.keys
    THEN [params EXCEPT !.sort = kw.original_sort]
    ELSE params

\* the most filter clauses of an /items request
MaxFq == 2

v_title_asc == <<"t","i","t","l","e"," ","a","s","c">>
v_collection_sort_asc == <<"c","o","l","l","e","c","t","i","o","n","_","s","o","r","t"," ","a","s","c">>
v_collection_sort_desc == <<"c","o","l","l","e","c","t","i","o","n","_","s","o","r","t"," ","d","e","s","c">>
v_collection_sort_2desc == <<"c","o","l","l","e","c","t","i","o","n","_","s","o","r","t"," "," ","d","e","s","c">>
v_coll_books == <<"c","o","l","l","e","c","t","i","o","n",":","B","o","o","k","s"," ","o","f"," ","H","o","u","r","s">>
v_coll_stjohns == <<"c","o","l","l","e","c","t","i","o","n",":","S","t","."," ","J","o","h","n","'","s">>
v_author_bede == <<"a","u","t","h","o","r",":","B","e","d","e">>

ItemsRequests ==
    [q     : {NoneV, ListV(<<v_bede>>), ListV(<<v_bede, v_psalter>>)},
     fq    : {NoneV, ListV(<<>>)} \cup
             {ListV(l) : l \in DistinctSeqs({v_coll_books, v_coll_stjohns, v_author_bede}, MaxFq)},
     sort  : {NoneStr, v_title_asc, v_collection_sort_asc, v_collection_sort_desc,
              v_collection_sort_2desc, s_collection_sort},
     start : {NoneStr, v_20},
     rows  : {<<>>, <<8>>, <<50>>}]

TranslateIdle ==
    /\ pc = "idle"
    /\ request = <<>>
    /\ url_params = <<>>
    /\ solr_params = NoResult

ItemsInit ==
    /\ TranslateIdle
    /\ ipc = "call"
    /\ items_req \in ItemsRequests
    /\ kwargs = <<>>
    /\ sent = <<>>
    /\ response = <<>>
    /\ reported = <<>>

\* get_items, down to requests.get in get_request
GetItems ==
    /\ ipc = "call"
    /\ LET kw == get_items(items_req)
       IN  IF kw.raised # "no"
           THEN /\ ipc' = "raised"
                /\ UNCHANGED <<kwargs, sent>>
           ELSE /\ ipc' = "requesting"
                /\ kwargs' = kw
                /\ sent' = BackendParams(kw)
    /\ UNCHANGED <<items_req, response, reported, translate_vars>>

\* the backend answers; responseHeader.params echoes the sort it was sent,
\* or echoes no parameters
BackendAnswers ==
    /\ ipc = "requesting"
    /\ \E echo \in BOOLEAN :
          response' = IF echo /\ sent.sort # NoneStr
                      THEN [keys |-> {"sort"}, sort |-> sent.sort]
                      ELSE [keys |-> {}, sort |-> NoneStr]
    /\ ipc' = "answered"
    /\ UNCHANGED <<items_req, kwargs, sent, reported, translate_vars>>

\* the request fails; get_request raises HTTPException
BackendFails ==
    /\ ipc = "requesting"
    /\ ipc' = "http_error"
    /\ UNCHANGED <<items_req, kwargs, sent, response, reported, translate_vars>>

\* get_request restores the sort and returns the result
GetRequestReturns ==
    /\ ipc = "answered"
    /\ reported' = Restored(kwargs, response)
    /\ ipc' = "done"
    /\ UNCHANGED <<items_req, kwargs, sent, response, translate_vars>>

ItemsNext == GetItems \/ BackendAnswers \/ BackendFails \/ GetRequestReturns

ItemsSpec == ItemsInit /\ [][ItemsNext]_vars

\* ------------------------------------------------------------------------
\* Properties of /items
\* ------------------------------------------------------------------------
Requested == ipc \in {"requesting", "answered", "http_error", "done"}

\* the first filter clause of the request that selects a collection
FirstCollection ==
    LET sel == SelectSeq(items_req.fq.l, LAMBDA c : StartsWith(c, s_collection_colon))
    IN  IF sel = <<>> THEN NoneStr ELSE sel[1]

CollectionSortCase ==
    /\ Requested
    /\ items_req.sort \in {v_collection_sort_asc, v_collection_sort_desc}
    /\ FirstCollection # NoneStr

RequestedDirection == IF items_req.sort = v_collection_sort_asc THEN s_asc ELSE s_desc

x_Books_sort == <<"B","o","o","k","s","_","o","f","_","H","o","u","r","s","_","s","o","r","t">>
x_StJohns_alnum_sort == <<"S","t","_","_","J","o","h","n","_","s","_","s","o","r","t">>
x_StJohns_space_sort == <<"S","t",".","_","J","o","h","n","'","s","_","s","o","r","t">>
x_StJohns_sort_desc == <<"S","t",".","_","J","o","h","n","'","s","_","s","o","r","t"," ","d","e","s","c">>

\* C9 as claimed: the sort sent is '<id'>_sort <dir>', id' being the
\* collection id with every non-alphanumeric character made an underscore.
C9_NonAlphanumericReplaced ==
    CollectionSortCase =>
        sent.sort = (IF FirstCollection = v_coll_books THEN x_Books_sort ELSE x_StJohns_alnum_sort)
                        \o <<" ">> \o RequestedDirection

\* C9 as amended: the sort sent is '<id'>_sort <dir>', id' being the id of
\* the first 'collection:' clause with every whitespace character made an
\* underscore and every other character kept.
C9_WhitespaceReplaced ==
    CollectionSortCase =>
        sent.sort = (IF FirstCollection = v_coll_books THEN x_Books_sort ELSE x_StJohns_space_sort)
                        \o <<" ">> \o RequestedDirection

C9_Witness ==
    /\ Requested
    /\ items_req.sort = v_collection_sort_desc
    /\ items_req.fq = ListV(<<v_author_bede, v_coll_stjohns>>)
    /\ sent.sort = x_StJohns_sort_desc

\* C10: when the backend echoes a sort, the sort reported to the caller is
\* the sort the caller supplied, and 'original_sort' is not among the
\* parameters sent to the backend.
C10_ReportedSort ==
    (ipc = "done" /\ "sort" \in response.keys) =>
        /\ reported.sort = items_req.sort
        /\ "original_sort" \notin sent.keys

\* C11: an /items request with no 'collection:' filter clause, an absent fq
\* included, does not raise, and the sort sent to the backend is the
\* caller's sort.
C11_NoMatchPassThrough ==
    (ipc # "call" /\ FirstCollection = NoneStr) =>
        /\ ipc # "raised"
        /\ Requested => sent.sort = items_req.sort

\* the request without its date components
WithoutDateParams == SelectSeq(request, LAMBDA e : ~InList(e.name, date_params))

\* C12: when a dateRange clause is emitted it is the only trace of the date
\* components: no free-text part and no filter clause comes from 'year',
\* 'month', 'day', 'year-max', 'month-max', 'day-max' or 'search-date-type',
\* and apart from that one clause the compiled query is the one of the
\* request without them.
C12_DateParamsConsumed ==
    (Returned /\ DateClauses # {}) =>
        /\ Cardinality(DateClauses) = 1
        /\ \A k \in DOMAIN date_params :
              /\ \A i \in DOMAIN solr_params.q_parts : ~FromParam(solr_params.q_parts[i], date_params[k])
              /\ \A i \in DOMAIN solr_params.fq : ~FromParam(solr_params.fq[i], date_params[k])
        /\ LET rest == translate_params(WithoutDateParams)
           IN  /\ solr_params.q = rest.q
               /\ Tail(solr_params.fq) = rest.fq
               /\ solr_params.filter = rest.filter
               /\ solr_params.sort = rest.sort
               /\ solr_params.start = rest.start

C12_Witness ==
    /\ Returned
    /\ Supplied(s_year) = StrV(v_1300) /\ Supplied(s_month) = StrV(v_5)
    /\ Supplied(s_month_max) = StrV(v_6)
    /\ Supplied(s_search_date_type) = StrV(s_before)
    /\ Supplied(s_keyword) = ListV(<<v_bede>>)
    /\ Cardinality(DateClauses) = 1
    /\ solr_params.q_parts = <<(<<"(">> \o v_bede \o <<")">>)>>

\* the range clause '{!field f=dateRange op=Intersects}[<lo> TO <hi>]'
IntersectsRange(lo, hi) == x_op_intersects \o <<"[">> \o lo \o s_TO \o hi \o <<"]">>

\* C13: one pair of bounds serves every open range: the default min and
\* default max of a 'between' range with no min or no max token are also
\* the lower bound of a 'before' range and the upper bound of an 'after'
\* range.
C13_SinglePairOfBounds ==
    (Returned /\ OnlyDateParams) =>
        LET sdt == Supplied(s_search_date_type)
            min == TokenOf(s_year, s_month, s_day)
            max == TokenOf(s_year_max, s_month_max, s_day_max)
        IN  /\ (sdt = StrV(s_between) /\ ~HasMinToken) =>
                   InFq(IntersectsRange(s_min_default, IF HasMaxToken THEN max ELSE s_max_default))
            /\ (sdt = StrV(s_between) /\ HasMinToken /\ ~HasMaxToken) =>
                   InFq(IntersectsRange(min, s_max_default))
            /\ (sdt = StrV(s_before) /\ HasMinToken /\ ~HasMaxToken) =>
                   InFq(IntersectsRange(s_min_default, min))
            /\ (sdt = StrV(s_after) /\ HasMinToken /\ ~HasMaxToken) =>
                   InFq(IntersectsRange(min, s_max_default))

\* C14: after translate_params the caller's parameters have the values they
\* were supplied with, in the same order.
C14_InputUnchanged == pc = "return" => url_params = request

====
